---- MODULE Spec2Model ----
(***************************************************************************)
(* Tracxn -> Airtable interface (src/tracxn_airtable_api.py).              *)
(*                                                                         *)
(* The module models the URL normaliser (simplify_url), the field mapper   *)
(* (extract_data), the duplicate guard (add_data_to_table) and the         *)
(* orchestrator (main) as the code computes them.                          *)
(*                                                                         *)
(* Text that the code parses (URLs) is a sequence of one-character         *)
(* strings.  Python / JSON values are tagged records; a dict is a function *)
(* whose DOMAIN is its key set, so that a missing key is really missing.   *)
(* The result of evaluating a Python expression is either Ok(v) or         *)
(* Raise(e).                                                               *)
(***************************************************************************)
EXTENDS Integers, Sequences, FiniteSets, TLC

VARIABLES
    pc,           \* position of the sequential run / of the function harness
    arg,          \* arguments of the function under test (harness specs)
    ret,          \* its result (harness specs)
    table,        \* the destination table: the records Airtable holds
    config,       \* config.json as loaded by main
    env,          \* the two environment variables
    company_url,  \* main's local company_url
    request_body, \* the filter domain of the provider query, once sent
    json_file,    \* the provider's response, once received
    data_to_add,  \* main's local data_to_add
    net,          \* the network calls of the current run, in order
    outcome,      \* how the current run ended
    calls         \* the concurrent invocations of add_data_to_table

vars == <<pc, arg, ret, table, config, env, company_url, request_body,
          json_file, data_to_add, net, outcome, calls>>

(***************************************************************************)
(* Bounds of the model.                                                    *)
(***************************************************************************)
MaxPortLen == 1     \* digits of a port in the URL inputs
MaxRows == 2        \* rows the destination table may hold
MaxMissing == 1     \* attributes of a provider record that deviate from the full record
MaxUnmapped == 1    \* fields of a mapping that deviate from the full mapping
MaxCalls == 2       \* concurrent invocations of add_data_to_table

(***************************************************************************)
(* Python values.                                                          *)
(***************************************************************************)
None == [t |-> "None"]
Str(s) == [t |-> "str", s |-> s]
Num(n) == [t |-> "num", n |-> n]
Dict(f) == [t |-> "dict", f |-> f]
List(items) == [t |-> "list", items |-> items]
Tuple(items) == [t |-> "tuple", items |-> items]
EmptyDict == [k \in {} |-> None]

Ok(v) == [ok |-> TRUE, v |-> v]
Raise(e) == [ok |-> FALSE, exc |-> e]

\* bool(v): None, "", 0 and empty containers are falsy.
Truthy(v) ==
    CASE v.t = "None" -> FALSE
      [] v.t = "str" -> v.s # ""
      [] v.t = "num" -> v.n # 0
      [] v.t = "dict" -> DOMAIN v.f # {}
      [] OTHER -> Len(v.items) > 0

\* c[k] for a string key k.
Subscript(c, k) ==
    IF c.t = "dict"
    THEN IF k \in DOMAIN c.f THEN Ok(c.f[k]) ELSE Raise("KeyError")
    ELSE Raise("TypeError")

\* c.get(k, default)
DictGet(c, k, default) ==
    IF c.t = "dict"
    THEN IF k \in DOMAIN c.f THEN Ok(c.f[k]) ELSE Ok(default)
    ELSE Raise("AttributeError")

\* str(v)
PyStr(v) ==
    CASE v.t = "None" -> "None"
      [] v.t = "str" -> v.s
      [] v.t = "num" -> ToString(v.n)
      [] v.t = "list" /\ v.items = <<Num(0)>> -> "[0]"
      [] OTHER -> "<repr>"

(***************************************************************************)
(* urllib.parse.urlparse, as far as simplify_url reads it (the netloc).    *)
(***************************************************************************)
Letters == {"a", "b", "c", "d", "e", "f", "g", "h", "i", "j", "k", "l", "m",
            "n", "o", "p", "q", "r", "s", "t", "u", "v", "w", "x", "y", "z"}
Digits == {"0", "1", "2", "3", "4", "5", "6", "7", "8", "9"}
scheme_chars == Letters \cup Digits \cup {"+", "-", "."}

\* s.find(c, start): the first index >= start holding c, 0 when there is none
\* (indices are 1-based here).
Find(s, c, start) ==
    LET hits == {i \in start..Len(s) : s[i] = c}
    IN  IF hits = {} THEN 0 ELSE CHOOSE i \in hits : \A j \in hits : i <= j

\* _splitnetloc(url, 2): the text between the leading "//" and the first of / ? #
SplitNetloc(url) ==
    LET ends == {Find(url, "/", 3), Find(url, "?", 3), Find(url, "#", 3)} \ {0}
        delim == IF ends = {} THEN Len(url) + 1
                 ELSE CHOOSE i \in ends : \A j \in ends : i <= j
    IN  SubSeq(url, 3, delim - 1)

urlparse(url, scheme) ==
    LET i == Find(url, ":", 1)
        split == /\ i > 1
                 /\ url[1] \in Letters
                 /\ \A k \in 1..(i - 1) : url[k] \in scheme_chars
        rest == IF split THEN SubSeq(url, i + 1, Len(url)) ELSE url
        slashes == Len(rest) >= 2 /\ rest[1] = "/" /\ rest[2] = "/"
    IN  [scheme |-> IF split THEN SubSeq(url, 1, i - 1) ELSE scheme,
         netloc |-> IF slashes THEN SplitNetloc(rest) ELSE <<>>]

HttpScheme == <<"h", "t", "t", "p">>
WwwDot == <<"w", "w", "w", ".">>

StartsWith(s, p) == Len(s) >= Len(p) /\ SubSeq(s, 1, Len(p)) = p

\* s.split(':')[0]
BeforeColon(s) ==
    LET i == Find(s, ":", 1)
    IN  IF i = 0 THEN s ELSE SubSeq(s, 1, i - 1)

simplify_url(url) ==
    LET domain == urlparse(url, HttpScheme).netloc
        stripped == IF StartsWith(domain, WwwDot)
                    THEN SubSeq(domain, 5, Len(domain))
                    ELSE domain
    IN  BeforeColon(stripped)

(***************************************************************************)
(* extract_data: the field mapper.                                         *)
(*                                                                         *)
(* field_names (config["fields"]) is a JSON object: its items are kept in  *)
(* file order, as a sequence of <<field, airtable_field>> pairs.           *)
(***************************************************************************)
Keys(field_names) == {field_names[i][1] : i \in 1..Len(field_names)}

\* field_names[k]
Lookup(field_names, k) ==
    IF k \in Keys(field_names)
    THEN Ok(field_names[CHOOSE i \in 1..Len(field_names) : field_names[i][1] = k][2])
    ELSE Raise("KeyError")

\* the keys of the dict field_processor
ProcessorKeys == {"Name", "Logo", "Short Description", "Long Description",
                  "Headquaters", "Founded Year", "Employee Count", "URL"}

\* c[k1][k2]
Subscript2(c, k1, k2) ==
    LET outer == Subscript(c, k1)
    IN  IF outer.ok THEN Subscript(outer.v, k2) ELSE outer

\* utils.attachment(url)
attachment(url) == Dict("url" :> url)

\* ", ".join([a, b, c])
Join3(a, b, c) ==
    IF a.t = "str" /\ b.t = "str" /\ c.t = "str"
    THEN Ok(Str(a.s \o ", " \o b.s \o ", " \o c.s))
    ELSE Raise("TypeError")

\* field_processor[field](c)
field_processor(field, c) ==
    CASE field = "Name" -> DictGet(c, "name", Str(""))
      [] field = "Logo" ->
            LET url == Subscript2(c, "logos", "imageUrl")
            IN  IF ~url.ok THEN url
                ELSE IF Truthy(url.v) THEN Ok(Tuple(<<attachment(url.v)>>))
                ELSE Ok(Tuple(<<List(<<>>)>>))
      [] field = "Short Description" -> Subscript2(c, "description", "short")
      [] field = "Long Description" -> Subscript2(c, "description", "long")
      [] field = "Headquaters" ->
            LET city == Subscript2(c, "location", "city")
                country == Subscript2(c, "location", "country")
                continent == Subscript2(c, "location", "continent")
            IN  IF ~city.ok THEN city
                ELSE IF ~country.ok THEN country
                ELSE IF ~continent.ok THEN continent
                ELSE Join3(city.v, country.v, continent.v)
      [] field = "Founded Year" ->
            LET year == Subscript(c, "foundedYear")
            IN  IF year.ok THEN Ok(Str(PyStr(year.v) \o "-01-01")) ELSE year
      [] field = "Employee Count" -> Subscript2(c, "latestEmployeeCount", "value")
      [] field = "URL" -> DictGet(c, "domain", Str(""))

\* data_dict[k] = v
Put(data_dict, k, v) ==
    [x \in DOMAIN data_dict \cup {k} |-> IF x = k THEN v ELSE data_dict[x]]

\* ProcessField with the test "airtable_field is not None" in place of
\* "if airtable_field": an empty column name passes
ProcessField_NotNone(data_dict, company, field, airtable_field) ==
    IF airtable_field.t = "None" THEN data_dict
    ELSE IF field \notin ProcessorKeys THEN data_dict
    ELSE LET r == field_processor(field, company)
         IN  IF r.ok THEN Put(data_dict, airtable_field.s, r.v)
             ELSE Put(data_dict, airtable_field.s, None)

\* the body of the inner loop, for one item of field_names
ProcessField(data_dict, company, field, airtable_field) ==
    IF ~Truthy(airtable_field) THEN data_dict
    ELSE IF field \notin ProcessorKeys THEN data_dict
    ELSE LET r == field_processor(field, company)
         IN  IF r.ok THEN Put(data_dict, airtable_field.s, r.v)
             ELSE Put(data_dict, airtable_field.s, None)

RECURSIVE ProcessFields(_, _, _, _)
ProcessFields(data_dict, company, field_names, i) ==
    IF i > Len(field_names) THEN data_dict
    ELSE ProcessFields(
             ProcessField(data_dict, company, field_names[i][1], field_names[i][2]),
             company, field_names, i + 1)

RECURSIVE ProcessCompanies(_, _, _, _)
ProcessCompanies(data_dict, companies, field_names, i) ==
    IF i > Len(companies) THEN data_dict
    ELSE ProcessCompanies(
             ProcessFields(data_dict, companies[i], field_names, 1),
             companies, field_names, i + 1)

extract_data(json, field_names) ==
    LET result == DictGet(json, "result", List(<<>>))
    IN  IF ~result.ok THEN result
        ELSE IF result.v.t # "list" THEN Raise("TypeError")
        ELSE Ok(ProcessCompanies(EmptyDict, result.v.items, field_names, 1))

(***************************************************************************)
(* add_data_to_table: the duplicate guard.                                 *)
(*                                                                         *)
(* The table is the sequence of records Airtable holds; table.all()        *)
(* returns them, each a dict with the keys id, createdTime and fields.     *)
(***************************************************************************)
\* c[k] for a key that is itself a Python value
SubscriptV(c, k) ==
    IF k.t = "str" THEN Subscript(c, k.s)
    ELSE IF c.t = "dict" THEN Raise("KeyError")
    ELSE Raise("TypeError")

\* k in c
In(k, c) ==
    IF c.t = "dict" THEN Ok(k.t = "str" /\ k.s \in DOMAIN c.f)
    ELSE Raise("TypeError")

\* the condition of the if statement in the loop, for one row
RowMatches(row, data_dict, field_names) ==
    LET url == Lookup(field_names, "URL")
        field == Subscript(row, "field")
        has == In(url.v, field.v)
        fields == Subscript(row, "fields")
        old == SubscriptV(fields.v, url.v)
        new == SubscriptV(Dict(data_dict), url.v)
    IN  IF ~url.ok THEN url
        ELSE IF ~field.ok THEN field
        ELSE IF ~has.ok THEN has
        ELSE IF ~has.v THEN Ok(FALSE)
        ELSE IF ~fields.ok THEN fields
        ELSE IF ~old.ok THEN old
        ELSE IF ~new.ok THEN new
        ELSE Ok(old.v = new.v)

\* the for loop over table_content: Ok("skip") when it returns False,
\* Ok("create") when it falls through, Raise(e) when a row's test raises
RECURSIVE Scan(_, _, _, _)
Scan(table_content, data_dict, field_names, i) ==
    IF i > Len(table_content) THEN Ok("create")
    ELSE LET m == RowMatches(table_content[i], data_dict, field_names)
         IN  IF ~m.ok THEN m
             ELSE IF m.v THEN Ok("skip")
             ELSE Scan(table_content, data_dict, field_names, i + 1)

\* the record Airtable stores for table.create(data_dict)
NewRecord(tbl, data_dict) ==
    Dict("id" :> Str("rec" \o ToString(Len(tbl) + 1))
         @@ "createdTime" :> Str("now")
         @@ "fields" :> Dict(data_dict))

\* table.create(data_dict)
Create(tbl, data_dict) == Append(tbl, NewRecord(tbl, data_dict))

\* the whole call: what it returns, the table afterwards, the network calls made
add_data_to_table(data_dict, tbl, field_names, check_for_url) ==
    IF ~check_for_url
    THEN [ret |-> Ok(TRUE), table |-> Create(tbl, data_dict), net |-> <<"create">>]
    ELSE LET s == Scan(tbl, data_dict, field_names, 1)
         IN  IF ~s.ok THEN [ret |-> s, table |-> tbl, net |-> <<"all">>]
             ELSE IF s.v = "skip"
             THEN [ret |-> Ok(FALSE), table |-> tbl, net |-> <<"all">>]
             ELSE [ret |-> Ok(TRUE), table |-> Create(tbl, data_dict),
                   net |-> <<"all", "create">>]

(***************************************************************************)
(* extract_keys: re.search of                                              *)
(*   https://airtable.com/(app[\w\d]+)/([\w\d]+)/                          *)
(* in the link.  The dot of the pattern matches any character.             *)
(***************************************************************************)
WordChars == Letters \cup Digits \cup {"_"}
pattern == <<"h", "t", "t", "p", "s", ":", "/", "/", "a", "i", "r", "t", "a", "b",
             "l", "e", ".", "c", "o", "m", "/", "a", "p", "p">>

\* the end of the longest run of word characters starting at i (i - 1 when empty)
RECURSIVE WordRunEnd(_, _)
WordRunEnd(s, i) ==
    IF i <= Len(s) /\ s[i] \in WordChars THEN WordRunEnd(s, i + 1) ELSE i - 1

\* the groups of a match starting at i, or <<>> when there is none
MatchAt(url, i) ==
    LET n == Len(pattern)
        literal == /\ i + n - 1 <= Len(url)
                   /\ \A k \in 1..n : pattern[k] = "." \/ url[i + k - 1] = pattern[k]
        e1 == WordRunEnd(url, i + n)
        e2 == WordRunEnd(url, e1 + 2)
    IN  IF /\ literal
           /\ e1 >= i + n
           /\ e1 + 1 <= Len(url) /\ url[e1 + 1] = "/"
           /\ e2 >= e1 + 2
           /\ e2 + 1 <= Len(url) /\ url[e2 + 1] = "/"
        THEN <<Str(SubSeq(url, i + n - 3, e1)), Str(SubSeq(url, e1 + 2, e2))>>
        ELSE <<>>

extract_keys(url) ==
    LET starts == {i \in 1..Len(url) : MatchAt(url, i) # <<>>}
    IN  IF starts = {} THEN <<None, None>>
        ELSE MatchAt(url, CHOOSE i \in starts : \A j \in starts : i <= j)

(***************************************************************************)
(* The credentials.  os.getenv gives None or a string.                     *)
(***************************************************************************)
\* s.lower(), on the tokens of the model
Lower(s) == IF s = "KEY" THEN "key" ELSE s

getAirtableAPI(e) ==
    IF Truthy(e.API_KEY_AIRTABLE) THEN Ok(e.API_KEY_AIRTABLE) ELSE Raise("ValueError")

\* getTraxcnToken without the test of the token
getTraxcnToken_NoCheck(e) == Ok(e.API_KEY_TRACXN)

getTraxcnToken(e) ==
    IF Truthy(e.API_KEY_TRACXN) /\ Truthy(Str(Lower(e.API_KEY_TRACXN.s)))
    THEN Ok(e.API_KEY_TRACXN)
    ELSE Raise("ValueError")

(***************************************************************************)
(* Inputs.                                                                 *)
(***************************************************************************)
Unset == [t |-> "unset"]

\* URLs: scheme, leading "www.", host, port, path / query
Schemes == {<<>>,
            <<"h", "t", "t", "p", ":", "/", "/">>,
            <<"h", "t", "t", "p", "s", ":", "/", "/">>}
Wwws == {<<>>, WwwDot}
Hosts == {<<"a", ".", "c">>, <<"b", ".", "i", "o">>}
Ports == {<<>>} \cup
         {<<":">> \o d : d \in UNION {[1..n -> {"8", "0"}] : n \in 1..MaxPortLen}}
Tails == {<<>>, <<"/", "p">>, <<"?", "q">>, <<"/", "p", "?", "q">>}

MkUrl(scheme, www, host, port, tail) ==
    [scheme |-> scheme, www |-> www, host |-> host, port |-> port, tail |-> tail,
     url |-> scheme \o www \o host \o port \o tail]

UrlArgs == {MkUrl(s, w, h, p, t) : s \in Schemes, w \in Wwws, h \in Hosts,
                                   p \in Ports, t \in Tails}

(***************************************************************************)
(* SpecUrl: simplify_url applied to every URL of UrlArgs.                  *)
(***************************************************************************)
Idle ==
    /\ config = Unset
    /\ env = Unset
    /\ company_url = Unset
    /\ request_body = Unset
    /\ json_file = Unset
    /\ data_to_add = Unset
    /\ net = <<>>
    /\ outcome = Unset
    /\ calls = <<>>

IdleUnchanged ==
    UNCHANGED <<config, env, company_url, request_body, json_file, data_to_add,
                net, outcome, calls>>

InitUrl ==
    /\ pc = "call"
    /\ arg \in UrlArgs
    /\ ret = Unset
    /\ table = <<>>
    /\ Idle

CallSimplifyUrl ==
    /\ pc = "call"
    /\ ret' = simplify_url(arg.url)
    /\ pc' = "return"
    /\ UNCHANGED <<arg, table>>
    /\ IdleUnchanged

SpecUrl == InitUrl /\ [][CallSimplifyUrl]_vars

\* C4: for every URL built from an optional scheme, an optional "www.", a host,
\* an optional port and an optional path / query, simplify_url returns exactly
\* the host; so an input without a scheme gives what the same input gives with
\* a scheme in front.
C4_BareHost ==
    pc = "return" =>
        /\ ret = arg.host
        /\ ret = simplify_url(<<"h", "t", "t", "p", ":", "/", "/">> \o
                              arg.www \o arg.host \o arg.port \o arg.tail)

(***************************************************************************)
(* Provider records: the full record, and the records that deviate from it *)
(* in at most MaxMissing attributes (missing, null or of the wrong shape). *)
(***************************************************************************)
FullCompany ==
    Dict("name" :> Str("Acme")
         @@ "logos" :> Dict("imageUrl" :> Str("acme.png"))
         @@ "description" :> Dict("short" :> Str("short") @@ "long" :> Str("long"))
         @@ "location" :> Dict("city" :> Str("Berlin") @@ "country" :> Str("Germany")
                               @@ "continent" :> Str("Europe"))
         @@ "foundedYear" :> Num(1999)
         @@ "latestEmployeeCount" :> Dict("value" :> Num(50))
         @@ "domain" :> Str("acme.com"))

OtherCompany ==
    Dict("name" :> Str("Beta") @@ "domain" :> Str("beta.io"))

AttrPaths ==
    {<<"name">>, <<"logos">>, <<"logos", "imageUrl">>,
     <<"description">>, <<"description", "short">>, <<"description", "long">>,
     <<"location">>, <<"location", "city">>, <<"location", "country">>,
     <<"location", "continent">>,
     <<"foundedYear">>, <<"latestEmployeeCount">>, <<"latestEmployeeCount", "value">>,
     <<"domain">>}
Kinds == {"missing", "null", "shape"}
WrongShape == List(<<Num(0)>>)

Deviate1(d, k, kind) ==
    CASE kind = "missing" -> Dict([x \in DOMAIN d.f \ {k} |-> d.f[x]])
      [] kind = "null" -> Dict(Put(d.f, k, None))
      [] kind = "shape" -> Dict(Put(d.f, k, WrongShape))

Deviate(c, path, kind) ==
    IF Len(path) = 1 THEN Deviate1(c, path[1], kind)
    ELSE IF path[1] \in DOMAIN c.f /\ c.f[path[1]].t = "dict"
    THEN Dict(Put(c.f, path[1], Deviate1(c.f[path[1]], path[2], kind)))
    ELSE c

RECURSIVE CompaniesUpTo(_)
CompaniesUpTo(n) ==
    IF n = 0 THEN {FullCompany}
    ELSE LET prev == CompaniesUpTo(n - 1)
         IN  prev \cup {Deviate(c, p, k) : c \in prev, p \in AttrPaths, k \in Kinds}

Companies == CompaniesUpTo(MaxMissing)

JsonFiles ==
    {Dict("result" :> List(<<c>>)) : c \in Companies}
    \cup {Dict("result" :> List(<<>>)), Dict(EmptyDict),
          Dict("result" :> List(<<FullCompany, OtherCompany>>))}

(***************************************************************************)
(* Field mappings: the full mapping, with either spelling of the           *)
(* headquarters field, and the mappings that deviate from it in at most    *)
(* MaxUnmapped fields (absent, mapped to null, mapped to "").              *)
(***************************************************************************)
FullMapping(hq) ==
    << <<"Name", Str("Company")>>, <<"Logo", Str("Logo")>>,
       <<"Short Description", Str("Short")>>, <<"Long Description", Str("Long")>>,
       <<hq, Str("HQ")>>, <<"Founded Year", Str("Founded")>>,
       <<"Employee Count", Str("Employees")>>, <<"URL", Str("URL")>> >>

MappingKinds == {"absent", "null", "empty"}

RECURSIVE Without(_, _)
Without(m, field) ==
    IF m = <<>> THEN <<>>
    ELSE IF Head(m)[1] = field THEN Without(Tail(m), field)
    ELSE <<Head(m)>> \o Without(Tail(m), field)

DeviateMapping(m, field, kind) ==
    IF kind = "absent" THEN Without(m, field)
    ELSE [i \in 1..Len(m) |->
             IF m[i][1] # field THEN m[i]
             ELSE <<field, IF kind = "null" THEN None ELSE Str("")>>]

RECURSIVE MappingsUpTo(_)
MappingsUpTo(n) ==
    IF n = 0 THEN {FullMapping("Headquarters"), FullMapping("Headquaters")}
    ELSE LET prev == MappingsUpTo(n - 1)
         IN  prev \cup {DeviateMapping(m, m[i][1], k) :
                           <<m, i>> \in {<<mm, ii>> \in prev \X (1..8) : ii <= Len(mm)},
                           k \in MappingKinds}

Mappings == MappingsUpTo(MaxUnmapped)

(***************************************************************************)
(* SpecMap: extract_data applied to every response and mapping.            *)
(***************************************************************************)
InitMap ==
    /\ pc = "call"
    /\ arg \in [json_file : JsonFiles, field_names : Mappings]
    /\ ret = Unset
    /\ table = <<>>
    /\ Idle

CallExtractData ==
    /\ pc = "call"
    /\ ret' = extract_data(arg.json_file, arg.field_names)
    /\ pc' = "return"
    /\ UNCHANGED <<arg, table>>
    /\ IdleUnchanged

SpecMap == InitMap /\ [][CallExtractData]_vars

\* the single record of the response under test, when it holds exactly one
OneRecord == /\ "result" \in DOMAIN arg.json_file.f
             /\ Len(arg.json_file.f["result"].items) = 1
TheRecord == arg.json_file.f["result"].items[1]

\* the columns a mapping names: non-empty strings
NonEmptyColumns(m) ==
    {m[i][2].s : i \in {j \in 1..Len(m) : m[j][2].t = "str" /\ m[j][2].s # ""}}

\* no other field of the mapping writes the column of item i
OwnColumn(m, i) == \A j \in 1..Len(m) : j # i => m[j][2] # m[i][2]

\* the attributes of the provider record that a canonical field reads
SourcePaths(field) ==
    CASE field = "Name" -> {<<"name">>}
      [] field = "Logo" -> {<<"logos", "imageUrl">>}
      [] field = "Short Description" -> {<<"description", "short">>}
      [] field = "Long Description" -> {<<"description", "long">>}
      [] field \in {"Headquarters", "Headquaters"} ->
            {<<"location", "city">>, <<"location", "country">>,
             <<"location", "continent">>}
      [] field = "Founded Year" -> {<<"foundedYear">>}
      [] field = "Employee Count" -> {<<"latestEmployeeCount", "value">>}
      [] field = "URL" -> {<<"domain">>}

Resolve(c, path) ==
    IF Len(path) = 1 THEN Subscript(c, path[1]) ELSE Subscript2(c, path[1], path[2])

\* the attribute is missing, null or of the wrong shape
Defective(c, path) ==
    LET r == Resolve(c, path)
    IN  ~r.ok \/ r.v = None \/ r.v = WrongShape

\* the empty / null markers: None, the empty string, the empty attachment list
Markers == {None, Str(""), Tuple(<<List(<<>>)>>)}

\* C6: when the source attribute of a configured field (one the mapper has a
\* rule for) is missing, null or of the wrong shape, the row holds the empty / null marker under that field's
\* column, the mapping does not raise, and every other configured field has the
\* value it has for the full record.
C6_DefectiveAttributeGivesMarker ==
    (pc = "return" /\ OneRecord) =>
        LET m == arg.field_names
            full == extract_data(Dict("result" :> List(<<FullCompany>>)), m)
        IN  /\ ret.ok
            /\ \A i \in 1..Len(m) :
                  (m[i][1] \in ProcessorKeys /\ Truthy(m[i][2]) /\ OwnColumn(m, i)) =>
                      LET col == m[i][2].s
                      IN  IF \E p \in SourcePaths(m[i][1]) : Defective(TheRecord, p)
                          THEN col \in DOMAIN ret.v /\ ret.v[col] \in Markers
                          ELSE /\ (col \in DOMAIN ret.v) = (col \in DOMAIN full.v)
                               /\ col \in DOMAIN ret.v => ret.v[col] = full.v[col]

\* C7: when the mapping gives the field Headquarters a non-empty column and the
\* record's location has city, country and continent, the row holds under that
\* column the three parts joined by ", " in that order.
C7_HeadquartersJoined ==
    (pc = "return" /\ OneRecord) =>
        LET m == arg.field_names
            city == Subscript2(TheRecord, "location", "city")
            country == Subscript2(TheRecord, "location", "country")
            continent == Subscript2(TheRecord, "location", "continent")
        IN  \A i \in 1..Len(m) :
               (/\ m[i][1] = "Headquarters"
                /\ Truthy(m[i][2]) /\ OwnColumn(m, i)
                /\ city.ok /\ country.ok /\ continent.ok
                /\ city.v.t = "str" /\ country.v.t = "str" /\ continent.v.t = "str")
               => /\ ret.ok
                  /\ m[i][2].s \in DOMAIN ret.v
                  /\ ret.v[m[i][2].s] =
                         Str(city.v.s \o ", " \o country.v.s \o ", " \o continent.v.s)

\* C8: every key of the mapped row is a non-empty destination column that the
\* mapping assigns to some field; a field that is absent from the mapping or
\* mapped to an empty or null destination adds no key.
C8_OnlyConfiguredColumns ==
    pc = "return" =>
        /\ ret.ok
        /\ DOMAIN ret.v \subseteq NonEmptyColumns(arg.field_names)
        /\ \A k \in DOMAIN ret.v :
              \E i \in 1..Len(arg.field_names) :
                 /\ arg.field_names[i][2] = Str(k)
                 /\ arg.field_names[i][1] \in ProcessorKeys \cup {"Headquarters"}

\* a field is mapped to an empty or null destination, and the other seven
\* fields of the mapping each gave the row a key
C8_Witness ==
    /\ pc = "return"
    /\ OneRecord
    /\ ret.ok
    /\ \E i \in 1..Len(arg.field_names) : ~Truthy(arg.field_names[i][2])
    /\ Cardinality(DOMAIN ret.v) = Len(arg.field_names) - 1
    /\ Cardinality(DOMAIN ret.v) > 1

(***************************************************************************)
(* SpecGuard: add_data_to_table applied to every candidate row, table,     *)
(* mapping and value of check_for_url.                                     *)
(***************************************************************************)
GuardRows ==
    {"URL" :> Str("a.com"),
     "URL" :> Str("c.com"),
     "Company" :> Str("Acme") @@ "URL" :> Str("a.com"),
     "Company" :> Str("Acme")}

ExistingFields ==
    {"URL" :> Str("a.com"), "URL" :> Str("b.com"), "Company" :> Str("Beta")}

GuardMappings ==
    {<< <<"Name", Str("Company")>>, <<"URL", Str("URL")>> >>,
     << <<"Name", Str("Company")>> >>}

RECURSIVE TablesUpTo(_)
TablesUpTo(n) ==
    IF n = 0 THEN {<<>>}
    ELSE LET prev == TablesUpTo(n - 1)
         IN  prev \cup {Create(t, f) : t \in prev, f \in ExistingFields}

InitGuard ==
    /\ pc = "call"
    /\ table \in TablesUpTo(MaxRows)
    /\ arg \in [data_dict : GuardRows, field_names : GuardMappings,
                check_for_url : BOOLEAN, table_content : {table}]
    /\ ret = Unset
    /\ Idle

CallAddData ==
    /\ pc = "call"
    /\ LET r == add_data_to_table(arg.data_dict, table, arg.field_names,
                                  arg.check_for_url)
       IN  /\ ret' = r.ret
           /\ table' = r.table
           /\ net' = r.net
    /\ pc' = "return"
    /\ UNCHANGED <<arg, config, env, company_url, request_body, json_file,
                   data_to_add, outcome, calls>>

SpecGuard == InitGuard /\ [][CallAddData]_vars

\* some existing row holds, under the URL column, the candidate's value
HasDuplicate(tbl, data_dict, column) ==
    \E i \in 1..Len(tbl) :
        /\ column \in DOMAIN tbl[i].f["fields"].f
        /\ tbl[i].f["fields"].f[column] = data_dict[column]

\* C3: with check_for_url on, add_data_to_table returns False and creates no
\* row if some existing row has the candidate's value under the URL column,
\* and otherwise creates the row and returns True; with check_for_url off it
\* always creates the row and returns True.
C3_GuardDecides ==
    (/\ pc = "return"
     /\ Lookup(arg.field_names, "URL").ok
     /\ Lookup(arg.field_names, "URL").v.s \in DOMAIN arg.data_dict) =>
        LET column == Lookup(arg.field_names, "URL").v.s
            created == /\ ret = Ok(TRUE)
                       /\ table = Create(arg.table_content, arg.data_dict)
            skipped == ret = Ok(FALSE) /\ table = arg.table_content
        IN  IF ~arg.check_for_url THEN created
            ELSE IF HasDuplicate(arg.table_content, arg.data_dict, column)
            THEN skipped
            ELSE created

(***************************************************************************)
(* Spec: main, run after run against the same table.                       *)
(***************************************************************************)
GoodLink == SubSeq(pattern, 1, 21) \o
            <<"a", "p", "p", "a", "1", "/", "t", "b", "l", "x", "/", "v", "i", "w">>
NoSlashLink == SubSeq(pattern, 1, 21) \o
               <<"a", "p", "p", "a", "1", "/", "t", "b", "l", "x">>
OtherLink == <<"h", "t", "t", "p", "s", ":", "/", "/", "e", ".", "c", "/", "n">>
AirtableLinks == {GoodLink, NoSlashLink, OtherLink}

CompanyLinks ==
    {MkUrl(<<"h", "t", "t", "p", "s", ":", "/", "/">>, WwwDot, <<"a", ".", "c">>,
           <<":", "8">>, <<"/", "p">>).url,
     MkUrl(<<"h", "t", "t", "p", ":", "/", "/">>, <<>>, <<"b", ".", "i", "o">>,
           <<>>, <<>>).url,
     MkUrl(<<>>, <<>>, <<"a", ".", "c">>, <<>>, <<>>).url}

MainMappings == GuardMappings \cup {FullMapping("Headquaters")}

Configs ==
    [links : [airtable : AirtableLinks, company : CompanyLinks], fields : MainMappings]
    \cup {[fields |-> m] : m \in GuardMappings}

Tokens == {None, Str(""), Str("KEY")}
Envs == [API_KEY_AIRTABLE : Tokens, API_KEY_TRACXN : Tokens]

Responses ==
    {[status_code |-> 200, json |-> Dict("result" :> List(r))] :
        r \in {<<>>, <<FullCompany>>, <<OtherCompany>>, <<FullCompany, OtherCompany>>}}
    \cup {[status_code |-> 404, json |-> Dict(EmptyDict)]}

\* main calls add_data_to_table without check_for_url: the default applies
check_for_url_default == FALSE

\* the domain request_data puts in the filter of the query
filter_domain(url) == simplify_url(url)

Init ==
    /\ pc = "load"
    /\ arg = Unset
    /\ ret = Unset
    /\ table = <<>>
    /\ config = Unset
    /\ env \in Envs
    /\ company_url = Unset
    /\ request_body = Unset
    /\ json_file = Unset
    /\ data_to_add = Unset
    /\ net = <<>>
    /\ outcome = Unset
    /\ calls = <<>>

\* the except clause of main: log and re-raise
Fail(e) ==
    /\ pc' = "done"
    /\ outcome' = [kind |-> "Error", exc |-> e]

\* open + json.load
LoadConfig ==
    /\ pc = "load"
    /\ \/ \E c \in Configs : config' = c /\ pc' = "keys" /\ UNCHANGED outcome
       \/ Fail("FileNotFoundError") /\ UNCHANGED config
    /\ UNCHANGED <<arg, ret, table, env, company_url, request_body, json_file,
                   data_to_add, net, calls>>

ExtractKeys ==
    /\ pc = "keys"
    /\ IF "links" \notin DOMAIN config THEN Fail("KeyError")
       ELSE LET keys == extract_keys(config.links.airtable)
            IN  IF keys[1] = None \/ keys[2] = None THEN Fail("ValueError")
                ELSE pc' = "simplify" /\ UNCHANGED outcome
    /\ UNCHANGED <<arg, ret, table, config, env, company_url, request_body,
                   json_file, data_to_add, net, calls>>

SimplifyCompanyUrl ==
    /\ pc = "simplify"
    /\ company_url' = simplify_url(config.links.company)
    /\ pc' = "airtable_api"
    /\ UNCHANGED <<arg, ret, table, config, env, request_body, json_file,
                   data_to_add, net, outcome, calls>>

GetAirtableAPI ==
    /\ pc = "airtable_api"
    /\ LET r == getAirtableAPI(env)
       IN  IF r.ok THEN pc' = "airtable_table" /\ UNCHANGED outcome ELSE Fail(r.exc)
    /\ UNCHANGED <<arg, ret, table, config, env, company_url, request_body,
                   json_file, data_to_add, net, calls>>

\* api.table(baseKey, tableKey) builds the handle; it sends nothing
GetAirtableTable ==
    /\ pc = "airtable_table"
    /\ pc' = "tracxn_token"
    /\ UNCHANGED <<arg, ret, table, config, env, company_url, request_body,
                   json_file, data_to_add, net, outcome, calls>>

GetTraxcnToken ==
    /\ pc = "tracxn_token"
    /\ LET r == getTraxcnToken(env)
       IN  IF r.ok THEN pc' = "request" /\ UNCHANGED outcome ELSE Fail(r.exc)
    /\ UNCHANGED <<arg, ret, table, config, env, company_url, request_body,
                   json_file, data_to_add, net, calls>>

\* request_data: the provider answers with any of Responses
RequestData ==
    /\ pc = "request"
    /\ request_body' = filter_domain(company_url)
    /\ net' = Append(net, "query")
    /\ \E resp \in Responses :
          IF resp.status_code # 200
          THEN Fail("ValueError") /\ UNCHANGED json_file
          ELSE json_file' = resp.json /\ pc' = "extract" /\ UNCHANGED outcome
    /\ UNCHANGED <<arg, ret, table, config, env, company_url, data_to_add, calls>>

ExtractData ==
    /\ pc = "extract"
    /\ LET r == extract_data(json_file, config.fields)
       IN  IF r.ok THEN data_to_add' = r.v /\ pc' = "add" /\ UNCHANGED outcome
           ELSE Fail(r.exc) /\ UNCHANGED data_to_add
    /\ UNCHANGED <<arg, ret, table, config, env, company_url, request_body,
                   json_file, net, calls>>

AddDataToTable ==
    /\ pc = "add"
    /\ LET r == add_data_to_table(data_to_add, table, config.fields,
                                  check_for_url_default)
       IN  /\ table' = r.table
           /\ net' = net \o r.net
           /\ outcome' = IF ~r.ret.ok THEN [kind |-> "Error", exc |-> r.ret.exc]
                         ELSE IF r.ret.v THEN [kind |-> "Inserted"]
                         ELSE [kind |-> "Skipped"]
    /\ pc' = "done"
    /\ UNCHANGED <<arg, ret, config, env, company_url, request_body, json_file,
                   data_to_add, calls>>

\* the next invocation of the program: nothing but the table is kept
NextRun ==
    /\ pc = "done"
    /\ Len(table) < MaxRows
    /\ pc' = "load"
    /\ env' \in Envs
    /\ config' = Unset
    /\ company_url' = Unset
    /\ request_body' = Unset
    /\ json_file' = Unset
    /\ data_to_add' = Unset
    /\ net' = <<>>
    /\ outcome' = Unset
    /\ UNCHANGED <<arg, ret, table, calls>>

Next ==
    \/ LoadConfig
    \/ ExtractKeys
    \/ SimplifyCompanyUrl
    \/ GetAirtableAPI
    \/ GetAirtableTable
    \/ GetTraxcnToken
    \/ RequestData
    \/ ExtractData
    \/ AddDataToTable
    \/ NextRun

Spec == Init /\ [][Next]_vars

\* the value a stored record holds under a column, None when it has none
Cell(record, column) ==
    IF column \in DOMAIN record.f["fields"].f
    THEN record.f["fields"].f[column]
    ELSE None

\* C1: a run whose provider record has a domain the table already holds under
\* the URL column ends Skipped and writes nothing, so the table never holds
\* two rows with the same domain.
C1_OneRowPerDomain ==
    /\ \A i, j \in 1..Len(table) :
          (i < j /\ Cell(table[i], "URL").t = "str" /\ Cell(table[i], "URL").s # "")
          => Cell(table[j], "URL") # Cell(table[i], "URL")
    /\ (/\ pc = "done"
        /\ data_to_add # Unset
        /\ \E i, j \in 1..Len(table) :
              /\ i < j
              /\ "URL" \in DOMAIN data_to_add
              /\ Cell(table[i], "URL") = data_to_add["URL"]
              /\ Cell(table[j], "URL") = data_to_add["URL"])
       => outcome.kind = "Skipped"

\* C2: when the provider query succeeds with an empty result list, the run
\* ends with an error and no insert into the table is attempted.
C2_EmptyResultIsNotFound ==
    (pc = "done" /\ json_file = Dict("result" :> List(<<>>))) =>
        /\ outcome.kind = "Error"
        /\ \A i \in 1..Len(net) : net[i] # "create"

\* C5: the domain in the filter of the provider query is the normalised
\* domain of links.company, the bare host of that link.
C5_FilterIsNormalisedLink ==
    request_body # Unset => request_body = simplify_url(config.links.company)

TokenMissing == ~Truthy(env.API_KEY_AIRTABLE) \/ ~Truthy(env.API_KEY_TRACXN)

\* C9: in a run where API_KEY_AIRTABLE or API_KEY_TRACXN is absent or empty,
\* no network call is ever made (no provider query, no read of the table, no
\* write to it) and the run ends with an error.
C9_NoTokenNoNetwork ==
    TokenMissing =>
        /\ net = <<>>
        /\ request_body = Unset /\ json_file = Unset /\ data_to_add = Unset
        /\ pc \notin {"request", "extract", "add"}
        /\ pc = "done" => outcome.kind = "Error"

\* a run with a valid configuration and an Airtable token, but an empty or
\* absent Tracxn token, has ended with the ValueError of getTraxcnToken
C9_Witness ==
    /\ pc = "done"
    /\ company_url # Unset
    /\ Truthy(env.API_KEY_AIRTABLE)
    /\ ~Truthy(env.API_KEY_TRACXN)
    /\ outcome = [kind |-> "Error", exc |-> "ValueError"]
    /\ net = <<>>

(***************************************************************************)
(* SpecConc: MaxCalls invocations of add_data_to_table run concurrently    *)
(* against one table.  Each call to Airtable (table.all, table.create) is  *)
(* one step; the loop over the snapshot is local.                          *)
(***************************************************************************)
Procs == 1..MaxCalls

ConcRows == {"URL" :> Str("a.com"), "URL" :> Str("c.com")}
ConcMapping == << <<"Name", Str("Company")>>, <<"URL", Str("URL")>> >>

\* a conditional insert: the row is written only if the table, as it is at
\* the time of the write, holds no row with the candidate's URL
CreateAfterGuard_Conditional(tbl, data_dict) ==
    IF \E i \in 1..Len(tbl) : Cell(tbl[i], "URL") = data_dict["URL"]
    THEN tbl
    ELSE Create(tbl, data_dict)

\* the table.create(data_dict) that follows the loop
CreateAfterGuard(tbl, data_dict) == Create(tbl, data_dict)

InitConc ==
    /\ pc = "concurrent"
    /\ arg = [field_names |-> ConcMapping]
    /\ ret = Unset
    /\ table \in {<<>>} \cup {Create(<<>>, f) : f \in ExistingFields}
    /\ calls \in [Procs -> [pc : {"call"}, data_dict : ConcRows,
                            check_for_url : BOOLEAN, table_content : {<<>>},
                            ret : {Unset}]]
    /\ config = Unset
    /\ env = Unset
    /\ company_url = Unset
    /\ request_body = Unset
    /\ json_file = Unset
    /\ data_to_add = Unset
    /\ net = <<>>
    /\ outcome = Unset

ConcUnchanged ==
    UNCHANGED <<pc, arg, ret, config, env, company_url, request_body, json_file,
                data_to_add, net, outcome>>

\* check_for_url is off: create and return True
CreateUnchecked(p) ==
    /\ calls[p].pc = "call"
    /\ ~calls[p].check_for_url
    /\ table' = Create(table, calls[p].data_dict)
    /\ calls' = [calls EXCEPT ![p].pc = "done", ![p].ret = Ok(TRUE)]
    /\ ConcUnchanged

\* table_content = table.all()
ReadAll(p) ==
    /\ calls[p].pc = "call"
    /\ calls[p].check_for_url
    /\ calls' = [calls EXCEPT ![p].pc = "loop", ![p].table_content = table]
    /\ UNCHANGED table
    /\ ConcUnchanged

\* the for loop over the snapshot
Loop(p) ==
    /\ calls[p].pc = "loop"
    /\ LET s == Scan(calls[p].table_content, calls[p].data_dict, arg.field_names, 1)
       IN  calls' = IF ~s.ok THEN [calls EXCEPT ![p].pc = "done", ![p].ret = s]
                    ELSE IF s.v = "skip"
                    THEN [calls EXCEPT ![p].pc = "done", ![p].ret = Ok(FALSE)]
                    ELSE [calls EXCEPT ![p].pc = "create"]
    /\ UNCHANGED table
    /\ ConcUnchanged

\* table.create(data_dict); return True
CreateChecked(p) ==
    /\ calls[p].pc = "create"
    /\ table' = CreateAfterGuard(table, calls[p].data_dict)
    /\ calls' = [calls EXCEPT ![p].pc = "done", ![p].ret = Ok(TRUE)]
    /\ ConcUnchanged

NextConc ==
    \E p \in Procs :
        \/ CreateUnchecked(p)
        \/ ReadAll(p)
        \/ Loop(p)
        \/ CreateChecked(p)

SpecConc == InitConc /\ [][NextConc]_vars

\* the rows of the table that hold the value v under the URL column
RowsWith(v) == {i \in 1..Len(table) : Cell(table[i], "URL") = v}

\* the invocations for the value v that returned True
Passed(v) == {p \in Procs : calls[p].data_dict["URL"] = v /\ calls[p].ret = Ok(TRUE)}

\* C10: the check and the insert are not atomic: every invocation that passed
\* the guard has inserted its row whatever the other invocations wrote in
\* between, so two invocations for one domain that both read the table before
\* either wrote both insert, and the table holds two rows for that domain.
C10_EveryPassedGuardInserts ==
    \A r \in ConcRows :
        Cardinality(RowsWith(r["URL"])) >= Cardinality(Passed(r["URL"]))

\* two invocations with check_for_url on, for the same domain, both read the
\* empty table, both returned True, and the table holds two rows for it
C10_Witness ==
    \E p, q \in Procs :
        /\ p # q
        /\ calls[p].check_for_url /\ calls[q].check_for_url
        /\ calls[p].data_dict = calls[q].data_dict
        /\ calls[p].table_content = <<>> /\ calls[q].table_content = <<>>
        /\ calls[p].ret = Ok(TRUE) /\ calls[q].ret = Ok(TRUE)
        /\ Cardinality(RowsWith(calls[p].data_dict["URL"])) >= 2

====
